---- MODULE Spec2Model ----
(***************************************************************************)
(* Model of oop.py: three in-memory repositories (tasks, projects, users)  *)
(* and the request handlers that sit on top of them.                       *)
(*                                                                         *)
(* A repository's dict is a sequence of records in insertion order (a      *)
(* Python dict keeps insertion order; overwriting a key keeps its place).  *)
(* An Optional value is None == <<>> or <<v>>.  A request body is a        *)
(* function from the field names the caller sent to their values; the      *)
(* pydantic constructors Task/Project/User fill the omitted fields.        *)
(*                                                                         *)
(* Spec runs the handlers one request at a time, each to completion        *)
(* (response holds the answer until it is delivered).  SpecConc runs them  *)
(* on two threadpool workers that interleave between dict operations       *)
(* (workers holds each worker's position and locals, served counts the     *)
(* requests taken).  SpecReads is SpecConc with clients that send a        *)
(* writing request only while no other writing request is being served.    *)
(***************************************************************************)
EXTENDS Integers, Sequences, FiniteSets, TLC

VARIABLES tasks, projects, users, response, workers, served

vars == <<tasks, projects, users, response, workers, served>>

(***************************************************************************)
(* Bounds of the model: how many distinct UUIDs of each kind exist.        *)
(***************************************************************************)
MaxTaskId == 2
MaxProjectId == 2
MaxUserId == 2

(***************************************************************************)
(* Bound of the concurrent runs: how many requests the workers take in     *)
(* all.                                                                    *)
(***************************************************************************)
MaxServed == 5

TaskIds == 1..MaxTaskId
ProjectIds == 1..MaxProjectId
UserIds == 1..MaxUserId

None == <<>>
Some(v) == <<v>>

TaskStatus == {"todo", "in_progress", "done"}

(***************************************************************************)
(* Python truthiness of an Optional[UUID] / Optional[BaseModel]: None is   *)
(* false, every UUID and every model instance is true.                     *)
(***************************************************************************)
Truthy(v) == v # None

Field(body, name, default) == IF name \in DOMAIN body THEN body[name] ELSE default

(***************************************************************************)
(* The pydantic models.  uuid4 is the value default_factory=uuid4 yields   *)
(* when the body carries no id.                                            *)
(***************************************************************************)
Task(body, uuid4) ==
    [id |-> Field(body, "id", uuid4),
     title |-> body["title"],
     description |-> Field(body, "description", None),
     status |-> Field(body, "status", "todo"),
     project_id |-> Field(body, "project_id", None)]

Project(body, uuid4) ==
    [id |-> Field(body, "id", uuid4),
     name |-> body["name"],
     description |-> Field(body, "description", None)]

User(body, uuid4) ==
    [id |-> Field(body, "id", uuid4),
     username |-> body["username"],
     email |-> body["email"]]

(***************************************************************************)
(* dict primitives on a store (sequence of records keyed by .id).          *)
(***************************************************************************)
Range(seq) == {seq[i] : i \in DOMAIN seq}

Keys(store) == {store[i].id : i \in DOMAIN store}

DictGet(store, id) ==
    IF id \in Keys(store)
    THEN Some(store[CHOOSE i \in DOMAIN store : store[i].id = id])
    ELSE None

DictSet(store, rec) ==
    IF rec.id \in Keys(store)
    THEN [i \in DOMAIN store |-> IF store[i].id = rec.id THEN rec ELSE store[i]]
    ELSE Append(store, rec)

DictDel(store, id) == SelectSeq(store, LAMBDA r : r.id # id)

(***************************************************************************)
(* Repository methods.  A method that can raise returns                    *)
(* [store, raised]; raised is the ValueError of the source.                *)
(***************************************************************************)
get_all(store) == store

get_by_id(store, id) == DictGet(store, id)

\* Faulty variant of create: keeps the stored record when the id is taken.
create_if_absent(store, rec) ==
    IF rec.id \in Keys(store) THEN store ELSE DictSet(store, rec)

create(store, rec) == DictSet(store, rec)

\* Faulty variant of update: merges, keeping the old description when the
\* new record has none.
update_merge(store, rec) ==
    IF rec.id \notin Keys(store)
    THEN [store |-> store, raised |-> TRUE]
    ELSE LET old == DictGet(store, rec.id)[1]
             kept == IF rec.description = None
                     THEN [rec EXCEPT !.description = old.description]
                     ELSE rec
         IN [store |-> DictSet(store, kept), raised |-> FALSE]

update(store, rec) ==
    IF rec.id \notin Keys(store)
    THEN [store |-> store, raised |-> TRUE]
    ELSE [store |-> DictSet(store, rec), raised |-> FALSE]

\* Faulty variant of delete: an id that is not stored is passed over in
\* silence.
delete_discard(store, id) == [store |-> DictDel(store, id), raised |-> FALSE]

delete(store, id) ==
    IF id \notin Keys(store)
    THEN [store |-> store, raised |-> TRUE]
    ELSE [store |-> DictDel(store, id), raised |-> FALSE]

\* Faulty variant of get_by_project: any task that has a project.
get_by_project_any(store, project_id) ==
    SelectSeq(store, LAMBDA task : task.project_id # None)

get_by_project(store, project_id) ==
    SelectSeq(store, LAMBDA task : task.project_id = Some(project_id))

(***************************************************************************)
(* Responses.  An HTTPException carries status_code and detail; an         *)
(* exception no handler catches (ValueError) surfaces as a 500.            *)
(***************************************************************************)
Ok(op, code, result) ==
    [op |-> op, status_code |-> code, detail |-> "", result |-> result]

HTTPException(op, code, detail) ==
    [op |-> op, status_code |-> code, detail |-> detail, result |-> None]

Unhandled(op) ==
    [op |-> op, status_code |-> 500, detail |-> "Internal Server Error", result |-> None]

NotFound(r) == r.status_code = 404
InvalidReference(r) == r.status_code = 400 /\ r.detail = "Project not found"
IdentityMismatch(r) == r.status_code = 400 /\ r.detail = "Task ID mismatch"
Failed(r) == NotFound(r) \/ InvalidReference(r) \/ IdentityMismatch(r)
Succeeded(r) == r.status_code \in {200, 201, 204}

(***************************************************************************)
(* Request bodies the model sends: a task body names a title, with or      *)
(* without description and status, with or without id and project_id.      *)
(***************************************************************************)
Restrict(f, S) == [k \in S |-> f[k]]

TaskBodies ==
    {Restrict([id |-> i, title |-> "a", project_id |-> p], {"title"} \cup S) :
        i \in TaskIds, p \in {Some(q) : q \in ProjectIds},
        S \in SUBSET {"id", "project_id"}}
    \cup
    {Restrict([id |-> i, title |-> "b", description |-> Some("d"),
               status |-> "in_progress"], {"title", "description", "status"} \cup S) :
        i \in TaskIds, S \in SUBSET {"id"}}

ProjectBodies ==
    {Restrict([id |-> i, name |-> n], S) :
        i \in ProjectIds, n \in {"n", "m"}, S \in {{"name"}, {"id", "name"}}}

UserBodies ==
    {Restrict([id |-> i, username |-> n, email |-> "e"], S) :
        i \in UserIds, n \in {"u", "v"},
        S \in {{"username", "email"}, {"id", "username", "email"}}}

(***************************************************************************)
(* The values uuid4 can yield for a body: it is called only when the body  *)
(* carries no id.                                                          *)
(***************************************************************************)
Uuid4(body, ids) == IF "id" \in DOMAIN body THEN {body["id"]} ELSE ids

(***************************************************************************)
(* A handler run to completion is a function of the current stores: it     *)
(* yields the stores it leaves and the response it sends.                  *)
(***************************************************************************)
Post(t, p, u, r) == [tasks |-> t, projects |-> p, users |-> u, response |-> r]

Raise(r) == Post(tasks, projects, users, r)

(***************************************************************************)
(* validate_*_exists: the fetched record, or None where the source raises  *)
(* the 404.                                                                *)
(***************************************************************************)
validate_task_exists(task_id) == get_by_id(tasks, task_id)

validate_project_exists(project_id) == get_by_id(projects, project_id)

validate_user_exists(user_id) == get_by_id(users, user_id)

(***************************************************************************)
(* Task handlers.                                                          *)
(***************************************************************************)
\* Faulty variant of create_task: no project check.
create_task_unchecked(task) ==
    Post(create(tasks, task), projects, users, Ok("create_task", 201, task))

\* Faulty variant of create_task: a project that is not stored is created
\* on the fly.
create_task_autocreate(task) ==
    IF Truthy(task.project_id) /\ ~Truthy(get_by_id(projects, task.project_id[1]))
    THEN Post(create(tasks, task),
              create(projects, Project([id |-> task.project_id[1], name |-> "n"],
                                       task.project_id[1])),
              users, Ok("create_task", 201, task))
    ELSE Post(create(tasks, task), projects, users, Ok("create_task", 201, task))

create_task(task) ==
    IF Truthy(task.project_id) /\ ~Truthy(get_by_id(projects, task.project_id[1]))
    THEN Raise(HTTPException("create_task", 400, "Project not found"))
    ELSE Post(create(tasks, task), projects, users, Ok("create_task", 201, task))

list_tasks == Raise(Ok("list_tasks", 200, get_all(tasks)))

get_task(task_id) ==
    LET task == validate_task_exists(task_id) IN
    IF ~Truthy(task)
    THEN Raise(HTTPException("get_task", 404, "Task not found"))
    ELSE Raise(Ok("get_task", 200, task[1]))

\* Faulty variant of update_task: writes before the project check.
update_task_write_first(task_id, task) ==
    IF task_id # task.id
    THEN Raise(HTTPException("update_task", 400, "Task ID mismatch"))
    ELSE IF ~Truthy(validate_task_exists(task_id))
    THEN Raise(HTTPException("update_task", 404, "Task not found"))
    ELSE LET r == update(tasks, task) IN
         IF Truthy(task.project_id) /\ ~Truthy(get_by_id(projects, task.project_id[1]))
         THEN Post(r.store, projects, users,
                   HTTPException("update_task", 400, "Project not found"))
         ELSE Post(r.store, projects, users, Ok("update_task", 200, task))

\* Faulty variant of update_task: existence is checked before the ids are
\* compared.
update_task_exists_first(task_id, task) ==
    IF ~Truthy(validate_task_exists(task_id))
    THEN Raise(HTTPException("update_task", 404, "Task not found"))
    ELSE IF task_id # task.id
    THEN Raise(HTTPException("update_task", 400, "Task ID mismatch"))
    ELSE IF Truthy(task.project_id) /\ ~Truthy(get_by_id(projects, task.project_id[1]))
    THEN Raise(HTTPException("update_task", 400, "Project not found"))
    ELSE Post(update(tasks, task).store, projects, users, Ok("update_task", 200, task))

update_task(task_id, task) ==
    IF task_id # task.id
    THEN Raise(HTTPException("update_task", 400, "Task ID mismatch"))
    ELSE IF ~Truthy(validate_task_exists(task_id))
    THEN Raise(HTTPException("update_task", 404, "Task not found"))
    ELSE IF Truthy(task.project_id) /\ ~Truthy(get_by_id(projects, task.project_id[1]))
    THEN Raise(HTTPException("update_task", 400, "Project not found"))
    ELSE LET r == update(tasks, task) IN
         IF r.raised THEN Raise(Unhandled("update_task"))
         ELSE Post(r.store, projects, users, Ok("update_task", 200, task))

delete_task(task_id) ==
    IF ~Truthy(validate_task_exists(task_id))
    THEN Raise(HTTPException("delete_task", 404, "Task not found"))
    ELSE LET r == delete(tasks, task_id) IN
         IF r.raised THEN Raise(Unhandled("delete_task"))
         ELSE Post(r.store, projects, users, Ok("delete_task", 204, None))

\* Faulty variant of update_task_status: stores a new Task built from id,
\* title and status.
update_task_status_rebuild(task_id, status) ==
    LET found == validate_task_exists(task_id) IN
    IF ~Truthy(found)
    THEN Raise(HTTPException("update_task_status", 404, "Task not found"))
    ELSE LET task == Task([id |-> task_id, title |-> found[1].title, status |-> status],
                          task_id)
         IN Post(update(tasks, task).store, projects, users,
                 Ok("update_task_status", 200, task))

(***************************************************************************)
(* validate_task_exists returns the stored object itself, so              *)
(* task.status = status already changes the store; update then writes the  *)
(* same object back under its id.                                          *)
(***************************************************************************)
update_task_status(task_id, status) ==
    LET found == validate_task_exists(task_id) IN
    IF ~Truthy(found)
    THEN Raise(HTTPException("update_task_status", 404, "Task not found"))
    ELSE LET task == [found[1] EXCEPT !.status = status]
             r == update(DictSet(tasks, task), task)
         IN IF r.raised THEN Raise(Unhandled("update_task_status"))
            ELSE Post(r.store, projects, users, Ok("update_task_status", 200, task))

(***************************************************************************)
(* Project handlers.                                                       *)
(***************************************************************************)
\* Faulty variant of create_project: an id already stored is refused.
create_project_unique(project) ==
    IF project.id \in Keys(projects)
    THEN Raise(HTTPException("create_project", 400, "Project already exists"))
    ELSE Post(tasks, create(projects, project), users,
              Ok("create_project", 201, project))

create_project(project) ==
    Post(tasks, create(projects, project), users, Ok("create_project", 201, project))

list_projects == Raise(Ok("list_projects", 200, get_all(projects)))

get_project(project_id) ==
    LET project == validate_project_exists(project_id) IN
    IF ~Truthy(project)
    THEN Raise(HTTPException("get_project", 404, "Project not found"))
    ELSE Raise(Ok("get_project", 200, project[1]))

get_project_tasks(project_id) ==
    IF ~Truthy(validate_project_exists(project_id))
    THEN Raise(HTTPException("get_project_tasks", 404, "Project not found"))
    ELSE Raise(Ok("get_project_tasks", 200, get_by_project(tasks, project_id)))

\* Faulty variant of the loop: deletes the first enumerated task only.
DeleteFirst(store, found) ==
    IF found = <<>>
    THEN [store |-> store, raised |-> FALSE]
    ELSE delete(store, Head(found).id)

\* Faulty variant of delete_project: no cascade.
delete_project_no_cascade(project_id) ==
    IF ~Truthy(validate_project_exists(project_id))
    THEN Raise(HTTPException("delete_project", 404, "Project not found"))
    ELSE Post(tasks, delete(projects, project_id).store, users,
              Ok("delete_project", 204, None))

(***************************************************************************)
(* The loop of delete_project: task_repo.delete on each enumerated task,   *)
(* in order, stopping at the first ValueError.                             *)
(***************************************************************************)
RECURSIVE DeleteEach(_, _)
DeleteEach(store, found) ==
    IF found = <<>>
    THEN [store |-> store, raised |-> FALSE]
    ELSE LET r == delete(store, Head(found).id) IN
         IF r.raised THEN r ELSE DeleteEach(r.store, Tail(found))

delete_project(project_id) ==
    IF ~Truthy(validate_project_exists(project_id))
    THEN Raise(HTTPException("delete_project", 404, "Project not found"))
    ELSE LET t == DeleteEach(tasks, get_by_project(tasks, project_id))
             p == delete(projects, project_id)
         IN IF t.raised
            THEN Post(t.store, projects, users, Unhandled("delete_project"))
            ELSE IF p.raised
            THEN Post(t.store, projects, users, Unhandled("delete_project"))
            ELSE Post(t.store, p.store, users, Ok("delete_project", 204, None))

(***************************************************************************)
(* User handlers.                                                          *)
(***************************************************************************)
\* Faulty variant of create_user: a stored user with the same username is
\* dropped first.
create_user_by_username(user) ==
    Post(tasks, projects,
         create(SelectSeq(users, LAMBDA u : u.username # user.username), user),
         Ok("create_user", 201, user))

create_user(user) ==
    Post(tasks, projects, create(users, user), Ok("create_user", 201, user))

list_users == Raise(Ok("list_users", 200, get_all(users)))

get_user(user_id) ==
    LET user == validate_user_exists(user_id) IN
    IF ~Truthy(user)
    THEN Raise(HTTPException("get_user", 404, "User not found"))
    ELSE Raise(Ok("get_user", 200, user[1]))

(***************************************************************************)
(* Requests are served one at a time: the server takes a request when no   *)
(* response is pending, runs the handler to completion, and the response   *)
(* is then delivered to the caller.                                        *)
(***************************************************************************)
Idle == Ok("idle", 0, None)

Serve(post) ==
    /\ response = Idle
    /\ tasks' = post.tasks
    /\ projects' = post.projects
    /\ users' = post.users
    /\ response' = post.response
    /\ UNCHANGED <<workers, served>>

Reply ==
    /\ response # Idle
    /\ response' = Idle
    /\ UNCHANGED <<tasks, projects, users, workers, served>>

(***************************************************************************)
(* The threadpool that runs the (synchronous) handlers: a worker is idle   *)
(* or somewhere inside one handler, with that handler's locals.  alias     *)
(* tells that the local task is the very object the task dict holds under  *)
(* task_id (validate_task_exists returns the stored object, not a copy).   *)
(***************************************************************************)
Workers == {"w1", "w2"}

NoRequest ==
    [pc |-> "idle", op |-> "", task_id |-> 0, task |-> None, project_id |-> 0,
     project |-> None, status |-> "", alias |-> FALSE, found |-> <<>>, size |-> 0,
     cursor |-> 0, resp |-> None]

Init ==
    /\ tasks = <<>>
    /\ projects = <<>>
    /\ users = <<>>
    /\ response = Idle
    /\ workers = [w \in Workers |-> NoRequest]
    /\ served = 0

CreateTask ==
    \E body \in TaskBodies : \E uuid4 \in Uuid4(body, TaskIds) :
        Serve(create_task(Task(body, uuid4)))

ListTasks == Serve(list_tasks)

GetTask == \E task_id \in TaskIds : Serve(get_task(task_id))

UpdateTask ==
    \E task_id \in TaskIds, body \in TaskBodies : \E uuid4 \in Uuid4(body, TaskIds) :
        Serve(update_task(task_id, Task(body, uuid4)))

DeleteTask == \E task_id \in TaskIds : Serve(delete_task(task_id))

UpdateTaskStatus ==
    \E task_id \in TaskIds, status \in TaskStatus :
        Serve(update_task_status(task_id, status))

CreateProject ==
    \E body \in ProjectBodies : \E uuid4 \in Uuid4(body, ProjectIds) :
        Serve(create_project(Project(body, uuid4)))

ListProjects == Serve(list_projects)

GetProject == \E project_id \in ProjectIds : Serve(get_project(project_id))

GetProjectTasks == \E project_id \in ProjectIds : Serve(get_project_tasks(project_id))

DeleteProject == \E project_id \in ProjectIds : Serve(delete_project(project_id))

CreateUser ==
    \E body \in UserBodies : \E uuid4 \in Uuid4(body, UserIds) :
        Serve(create_user(User(body, uuid4)))

ListUsers == Serve(list_users)

GetUser == \E user_id \in UserIds : Serve(get_user(user_id))

Next ==
    \/ CreateTask
    \/ ListTasks
    \/ GetTask
    \/ UpdateTask
    \/ DeleteTask
    \/ UpdateTaskStatus
    \/ CreateProject
    \/ ListProjects
    \/ GetProject
    \/ GetProjectTasks
    \/ DeleteProject
    \/ CreateUser
    \/ ListUsers
    \/ GetUser
    \/ Reply

Spec == Init /\ [][Next]_vars

(***************************************************************************)
(* Handlers run concurrently, one per worker.  The interpreter may switch  *)
(* workers between any two dict operations, so a step is one dict          *)
(* operation (get, in, setitem, delitem, one next() of an iterator)        *)
(* together with the local computation around it.  No repository holds a   *)
(* lock.                                                                   *)
(***************************************************************************)
Request(op, task_id, task, project_id, project) ==
    [NoRequest EXCEPT !.op = op, !.task_id = task_id, !.task = task,
                      !.project_id = project_id, !.project = project]

ConcTasks ==
    {Task([id |-> i, title |-> "a", project_id |-> Some(1)], i) : i \in TaskIds}

ConcUpdates ==
    {Task([id |-> i, title |-> "b", project_id |-> Some(1)], i) : i \in TaskIds}

ConcRequests ==
    {Request("create_project", 0, None, 0, Some(Project([id |-> 1, name |-> "n"], 1)))}
    \cup {Request("create_task", 0, Some(task), 0, None) : task \in ConcTasks}
    \cup {Request("update_task", task.id, Some(task), 0, None) : task \in ConcUpdates}
    \cup {Request("delete_task", task_id, None, 0, None) : task_id \in TaskIds}
    \cup {[Request("update_task_status", task_id, None, 0, None) EXCEPT !.status = "done"] :
             task_id \in TaskIds}
    \cup {Request("list_tasks", 0, None, 0, None),
          Request("get_project_tasks", 0, None, 1, None),
          Request("delete_project", 0, None, 1, None)}

Entry(op) ==
    CASE op = "create_project" -> "create_project"
      [] op = "create_task" -> "create_task_check"
      [] op = "update_task" -> "update_task_validate"
      [] op = "delete_task" -> "delete_task_validate"
      [] op = "update_task_status" -> "status_validate"
      [] op = "list_tasks" -> "list_tasks"
      [] op = "get_project_tasks" -> "project_validate"
      [] op = "delete_project" -> "project_validate"

At(w, label) == workers[w].pc = label

Goto(w, label) == workers' = [workers EXCEPT ![w].pc = label]

Finished(w, r) ==
    [workers EXCEPT ![w].pc = "done", ![w].resp = Some(r), ![w].alias = FALSE]

Finish(w, r) == workers' = Finished(w, r)

\* The task object a worker holds: the stored one while it is an alias.
Local(w) ==
    IF workers[w].alias
    THEN DictGet(tasks, workers[w].task_id)[1]
    ELSE workers[w].task[1]

\* The dict entry of id is about to be removed or bound to another object
\* by worker w: the workers that hold the object stored so far keep it, as
\* it is now, and it is no longer the stored one.
Detach(ws, w, id) ==
    [v \in Workers |->
        IF v # w /\ ws[v].alias /\ ws[v].task_id = id
        THEN [ws[v] EXCEPT !.alias = FALSE, !.task = get_by_id(tasks, id)]
        ELSE ws[v]]

Accept(w) ==
    /\ At(w, "idle")
    /\ served < MaxServed
    /\ served' = served + 1
    /\ \E req \in ConcRequests :
          workers' = [workers EXCEPT ![w] = [req EXCEPT !.pc = Entry(req.op)]]
    /\ UNCHANGED <<tasks, projects, users, response>>

Deliver(w) ==
    /\ At(w, "done")
    /\ workers' = [workers EXCEPT ![w] = NoRequest]
    /\ UNCHANGED <<tasks, projects, users, response, served>>

\* create_project: project_repo.create(project)
CreateProjectStep(w) ==
    /\ At(w, "create_project")
    /\ projects' = create(projects, workers[w].project[1])
    /\ Finish(w, Ok("create_project", 201, workers[w].project[1]))
    /\ UNCHANGED <<tasks, users, response, served>>

\* create_task: the project check
CreateTaskCheck(w) ==
    LET task == workers[w].task[1] IN
    /\ At(w, "create_task_check")
    /\ IF Truthy(task.project_id) /\ ~Truthy(get_by_id(projects, task.project_id[1]))
       THEN Finish(w, HTTPException("create_task", 400, "Project not found"))
       ELSE Goto(w, "create_task_create")
    /\ UNCHANGED <<tasks, projects, users, response, served>>

\* Faulty variant of the write of create_task: the project is looked up
\* again in the same step.
CreateTaskCreateChecked(w) ==
    LET task == workers[w].task[1] IN
    /\ At(w, "create_task_create")
    /\ IF Truthy(task.project_id) /\ ~Truthy(get_by_id(projects, task.project_id[1]))
       THEN /\ Finish(w, HTTPException("create_task", 400, "Project not found"))
            /\ UNCHANGED tasks
       ELSE /\ tasks' = create(tasks, task)
            /\ workers' = Detach(Finished(w, Ok("create_task", 201, task)), w, task.id)
    /\ UNCHANGED <<projects, users, response, served>>

\* create_task: task_repo.create(task)
CreateTaskCreate(w) ==
    /\ At(w, "create_task_create")
    /\ tasks' = create(tasks, workers[w].task[1])
    /\ workers' = Detach(Finished(w, Ok("create_task", 201, workers[w].task[1])),
                         w, workers[w].task[1].id)
    /\ UNCHANGED <<projects, users, response, served>>

\* update_task: the id comparison and validate_task_exists
UpdateTaskValidate(w) ==
    /\ At(w, "update_task_validate")
    /\ IF workers[w].task_id # workers[w].task[1].id
       THEN Finish(w, HTTPException("update_task", 400, "Task ID mismatch"))
       ELSE IF ~Truthy(get_by_id(tasks, workers[w].task_id))
       THEN Finish(w, HTTPException("update_task", 404, "Task not found"))
       ELSE Goto(w, "update_task_check")
    /\ UNCHANGED <<tasks, projects, users, response, served>>

\* update_task: the project check
UpdateTaskCheck(w) ==
    LET task == workers[w].task[1] IN
    /\ At(w, "update_task_check")
    /\ IF Truthy(task.project_id) /\ ~Truthy(get_by_id(projects, task.project_id[1]))
       THEN Finish(w, HTTPException("update_task", 400, "Project not found"))
       ELSE Goto(w, "update_in")
    /\ UNCHANGED <<tasks, projects, users, response, served>>

\* TaskRepository.update: if task.id not in self._tasks: raise ValueError
UpdateIn(w) ==
    /\ At(w, "update_in")
    /\ IF workers[w].task[1].id \notin Keys(tasks)
       THEN Finish(w, Unhandled(workers[w].op))
       ELSE Goto(w, "update_set")
    /\ UNCHANGED <<tasks, projects, users, response, served>>

\* TaskRepository.update: self._tasks[task.id] = task
UpdateSet(w) ==
    /\ At(w, "update_set")
    /\ tasks' = DictSet(tasks, Local(w))
    /\ workers' = IF workers[w].alias
                  THEN Finished(w, Ok(workers[w].op, 200, Local(w)))
                  ELSE Detach(Finished(w, Ok(workers[w].op, 200, Local(w))),
                              w, Local(w).id)
    /\ UNCHANGED <<projects, users, response, served>>

\* update_task_status: task = validate_task_exists(task_id)
StatusValidate(w) ==
    LET found == get_by_id(tasks, workers[w].task_id) IN
    /\ At(w, "status_validate")
    /\ IF ~Truthy(found)
       THEN Finish(w, HTTPException("update_task_status", 404, "Task not found"))
       ELSE workers' = [workers EXCEPT ![w].pc = "status_assign", ![w].task = found,
                                       ![w].alias = TRUE]
    /\ UNCHANGED <<tasks, projects, users, response, served>>

\* update_task_status: task.status = status, on the object fetched; the
\* store changes with it while that object is the stored one.
StatusAssign(w) ==
    LET task == [Local(w) EXCEPT !.status = workers[w].status] IN
    /\ At(w, "status_assign")
    /\ tasks' = IF workers[w].alias THEN DictSet(tasks, task) ELSE tasks
    /\ workers' = [workers EXCEPT ![w].pc = "update_in", ![w].task = Some(task)]
    /\ UNCHANGED <<projects, users, response, served>>

\* list_tasks: list(self._tasks.values()), one call into the interpreter
ListTasksStep(w) ==
    /\ At(w, "list_tasks")
    /\ Finish(w, Ok("list_tasks", 200, get_all(tasks)))
    /\ UNCHANGED <<tasks, projects, users, response, served>>

\* delete_task: validate_task_exists
DeleteTaskValidate(w) ==
    /\ At(w, "delete_task_validate")
    /\ IF ~Truthy(get_by_id(tasks, workers[w].task_id))
       THEN Finish(w, HTTPException("delete_task", 404, "Task not found"))
       ELSE Goto(w, "delete_in")
    /\ UNCHANGED <<tasks, projects, users, response, served>>

\* The id TaskRepository.delete is called with: the path id in delete_task,
\* the id of the current task of the for loop in delete_project.
DeleteKey(w) ==
    IF workers[w].op = "delete_task"
    THEN workers[w].task_id
    ELSE workers[w].found[workers[w].cursor].id

\* Faulty variant of the check of delete: when it fails inside
\* delete_project, the tasks deleted so far are put back.
DeleteInRollback(w) ==
    /\ At(w, "delete_in")
    /\ IF DeleteKey(w) \notin Keys(tasks)
       THEN /\ Finish(w, Unhandled(workers[w].op))
            /\ tasks' = IF workers[w].op = "delete_project"
                        THEN tasks \o SelectSeq(SubSeq(workers[w].found, 1,
                                                       workers[w].cursor - 1),
                                                LAMBDA t : t.id \notin Keys(tasks))
                        ELSE tasks
       ELSE /\ Goto(w, "delete_del")
            /\ UNCHANGED tasks
    /\ UNCHANGED <<projects, users, response, served>>

\* TaskRepository.delete: if task_id not in self._tasks: raise ValueError
DeleteIn(w) ==
    /\ At(w, "delete_in")
    /\ IF DeleteKey(w) \notin Keys(tasks)
       THEN Finish(w, Unhandled(workers[w].op))
       ELSE Goto(w, "delete_del")
    /\ UNCHANGED <<tasks, projects, users, response, served>>

\* The iterators of other workers after an entry is removed from the dict:
\* an iterator past the removed entry either still resumes after the entry
\* it visited last (the entry table keeps a hole) or, the table having been
\* rebuilt by a later insert, keeps its index and skips one.
Position(store, id) == CHOOSE i \in DOMAIN store : store[i].id = id

Shifts(w, at) ==
    {sh \in [Workers -> {0, 1}] :
        \A v \in Workers :
            sh[v] = 1 => /\ v # w
                         /\ workers[v].pc = "scan_next"
                         /\ workers[v].cursor > at}

\* TaskRepository.delete: del self._tasks[task_id]  (KeyError when absent)
DeleteDel(w) ==
    /\ At(w, "delete_del")
    /\ IF DeleteKey(w) \notin Keys(tasks)
       THEN /\ Finish(w, Unhandled(workers[w].op))
            /\ UNCHANGED tasks
       ELSE /\ tasks' = DictDel(tasks, DeleteKey(w))
            /\ \E sh \in Shifts(w, Position(tasks, DeleteKey(w))) :
                  workers' =
                      Detach([v \in Workers |->
                                 IF v # w
                                 THEN [workers[v] EXCEPT !.cursor = @ - sh[v]]
                                 ELSE IF workers[w].op = "delete_task"
                                 THEN [workers[w] EXCEPT
                                          !.pc = "done",
                                          !.resp = Some(Ok("delete_task", 204, None))]
                                 ELSE [workers[w] EXCEPT !.pc = "loop", !.cursor = @ + 1]],
                             w, DeleteKey(w))
    /\ UNCHANGED <<projects, users, response, served>>

\* get_project_tasks / delete_project: validate_project_exists
ProjectValidate(w) ==
    /\ At(w, "project_validate")
    /\ IF ~Truthy(get_by_id(projects, workers[w].project_id))
       THEN Finish(w, HTTPException(workers[w].op, 404, "Project not found"))
       ELSE Goto(w, "scan_iter")
    /\ UNCHANGED <<tasks, projects, users, response, served>>

\* get_by_project: iter(self._tasks.values()) notes the size of the dict
ScanIter(w) ==
    /\ At(w, "scan_iter")
    /\ workers' = [workers EXCEPT ![w].pc = "scan_next", ![w].size = Len(tasks),
                                  ![w].cursor = 1, ![w].found = <<>>]
    /\ UNCHANGED <<tasks, projects, users, response, served>>

\* get_by_project: one next() of the iterator and the filter of the
\* comprehension; RuntimeError when the dict changed size.
ScanNext(w) ==
    LET me == workers[w] IN
    /\ At(w, "scan_next")
    /\ IF Len(tasks) # me.size
       THEN Finish(w, Unhandled(me.op))
       ELSE IF me.cursor > Len(tasks)
       THEN IF me.op = "get_project_tasks"
            THEN Finish(w, Ok("get_project_tasks", 200, me.found))
            ELSE workers' = [workers EXCEPT ![w].pc = "loop", ![w].cursor = 1]
       ELSE workers' =
                [workers EXCEPT
                    ![w].cursor = @ + 1,
                    ![w].found = IF tasks[me.cursor].project_id = Some(me.project_id)
                                 THEN Append(@, tasks[me.cursor])
                                 ELSE @]
    /\ UNCHANGED <<tasks, projects, users, response, served>>

\* Faulty variant of the for loop: it is left after the first task.
LoopBreak(w) ==
    /\ At(w, "loop")
    /\ IF workers[w].cursor <= Len(workers[w].found) /\ workers[w].cursor = 1
       THEN Goto(w, "delete_in")
       ELSE Goto(w, "project_delete_in")
    /\ UNCHANGED <<tasks, projects, users, response, served>>

\* delete_project: for task in <the list>: ...; then project_repo.delete
Loop(w) ==
    /\ At(w, "loop")
    /\ IF workers[w].cursor <= Len(workers[w].found)
       THEN Goto(w, "delete_in")
       ELSE Goto(w, "project_delete_in")
    /\ UNCHANGED <<tasks, projects, users, response, served>>

\* ProjectRepository.delete: if project_id not in self._projects: raise
ProjectDeleteIn(w) ==
    /\ At(w, "project_delete_in")
    /\ IF workers[w].project_id \notin Keys(projects)
       THEN Finish(w, Unhandled(workers[w].op))
       ELSE Goto(w, "project_delete_del")
    /\ UNCHANGED <<tasks, projects, users, response, served>>

\* ProjectRepository.delete: del self._projects[project_id]
ProjectDeleteDel(w) ==
    /\ At(w, "project_delete_del")
    /\ IF workers[w].project_id \notin Keys(projects)
       THEN /\ Finish(w, Unhandled(workers[w].op))
            /\ UNCHANGED projects
       ELSE /\ projects' = DictDel(projects, workers[w].project_id)
            /\ Finish(w, Ok("delete_project", 204, None))
    /\ UNCHANGED <<tasks, users, response, served>>

Steps(w) ==
        \/ StatusValidate(w)
        \/ StatusAssign(w)
        \/ ListTasksStep(w)
        \/ CreateProjectStep(w)
        \/ CreateTaskCheck(w)
        \/ CreateTaskCreate(w)
        \/ UpdateTaskValidate(w)
        \/ UpdateTaskCheck(w)
        \/ UpdateIn(w)
        \/ UpdateSet(w)
        \/ DeleteTaskValidate(w)
        \/ DeleteIn(w)
        \/ DeleteDel(w)
        \/ ProjectValidate(w)
        \/ ScanIter(w)
        \/ ScanNext(w)
        \/ Loop(w)
        \/ ProjectDeleteIn(w)
        \/ ProjectDeleteDel(w)

NextConc == \E w \in Workers : Accept(w) \/ Deliver(w) \/ Steps(w)

SpecConc == Init /\ [][NextConc]_vars

(***************************************************************************)
(* The same handlers and steps when clients send a writing request only    *)
(* while no other writing request is being served: list_tasks and          *)
(* get_project_tasks are the only requests that run beside another one.    *)
(***************************************************************************)
IsRead(op) == op \in {"list_tasks", "get_project_tasks"}

AcceptBesideReads(w) ==
    /\ At(w, "idle")
    /\ served < MaxServed
    /\ served' = served + 1
    /\ \E req \in ConcRequests :
          /\ \/ IsRead(req.op)
             \/ \A v \in Workers \ {w} :
                   workers[v].pc \in {"idle", "done"} \/ IsRead(workers[v].op)
          /\ workers' = [workers EXCEPT ![w] = [req EXCEPT !.pc = Entry(req.op)]]
    /\ UNCHANGED <<tasks, projects, users, response>>

NextReads == \E w \in Workers : AcceptBesideReads(w) \/ Deliver(w) \/ Steps(w)

SpecReads == Init /\ [][NextReads]_vars

(***************************************************************************)
(* Every handler outcome possible in the current state, by handler.  A     *)
(* handler starts only when response = Idle (Serve), so the properties     *)
(* below that speak of "the state before the call" speak of those states.  *)
(***************************************************************************)
TaskInputs == {Task(body, uuid4) : body \in TaskBodies, uuid4 \in TaskIds}

ProjectInputs == {Project(body, uuid4) : body \in ProjectBodies, uuid4 \in ProjectIds}

UserInputs == {User(body, uuid4) : body \in UserBodies, uuid4 \in UserIds}

Outcomes ==
    {create_task(task) : task \in TaskInputs}
    \cup {get_task(task_id) : task_id \in TaskIds}
    \cup {update_task(task_id, task) : task_id \in TaskIds, task \in TaskInputs}
    \cup {delete_task(task_id) : task_id \in TaskIds}
    \cup {update_task_status(task_id, status) : task_id \in TaskIds, status \in TaskStatus}
    \cup {get_project(project_id) : project_id \in ProjectIds}
    \cup {get_project_tasks(project_id) : project_id \in ProjectIds}
    \cup {delete_project(project_id) : project_id \in ProjectIds}
    \cup {get_user(user_id) : user_id \in UserIds}
    \cup {create_project(project) : project \in ProjectInputs}
    \cup {create_user(user) : user \in UserInputs}
    \cup {list_tasks, list_projects, list_users}

SameStores(post) ==
    /\ post.tasks = tasks
    /\ post.projects = projects
    /\ post.users = users

References(task, project_id) == task.project_id = Some(project_id)

(***************************************************************************)
(* C1.  Referential integrity: in every state reached by handlers run to   *)
(* completion from empty stores, every stored task with a project_id       *)
(* refers to a key of the project store.                                   *)
(***************************************************************************)
C1_ReferentialIntegrity ==
    \A i \in DOMAIN tasks :
        Truthy(tasks[i].project_id) => tasks[i].project_id[1] \in Keys(projects)

\* delete_project has just succeeded and a task referring to a project remains.
C1_Witness ==
    /\ response.op = "delete_project"
    /\ response.status_code = 204
    /\ \E i \in DOMAIN tasks : Truthy(tasks[i].project_id)

(***************************************************************************)
(* C2.  Cascading delete: for every project P in the store,                *)
(* delete_project(P) leaves P absent, leaves no task referring to P, and   *)
(* leaves every other task stored and equal to its record before the call. *)
(***************************************************************************)
C2_CascadingDelete ==
    response = Idle =>
        \A P \in Keys(projects) :
            LET post == delete_project(P) IN
            /\ post.response = Ok("delete_project", 204, None)
            /\ P \notin Keys(post.projects)
            /\ \A i \in DOMAIN post.tasks : ~References(post.tasks[i], P)
            /\ \A i \in DOMAIN tasks :
                  ~References(tasks[i], P) =>
                      DictGet(post.tasks, tasks[i].id) = Some(tasks[i])

\* A project with a task of its own beside a task of another project and,
\* in the same run, delete_project removing the one and keeping the other.
C2_Witness ==
    /\ response = Idle
    /\ \E P \in Keys(projects) :
          /\ \E i, j \in DOMAIN tasks :
                /\ References(tasks[i], P)
                /\ Truthy(tasks[j].project_id) /\ ~References(tasks[j], P)
          /\ Len(delete_project(P).tasks) = 1
          /\ Len(delete_project(P).projects) = 1

(***************************************************************************)
(* C3.  Failure atomicity: a handler that ends in NotFound,                *)
(* InvalidReference or IdentityMismatch leaves the three stores equal to   *)
(* their contents before it started.                                       *)
(***************************************************************************)
C3_FailureAtomicity ==
    response = Idle =>
        \A post \in Outcomes : Failed(post.response) => SameStores(post)

\* update_task has just failed on its project check with all stores populated.
C3_Witness ==
    /\ response.op = "update_task"
    /\ InvalidReference(response)
    /\ tasks # <<>> /\ projects # <<>> /\ users # <<>>

(***************************************************************************)
(* C4.  Per-repository atomicity: a repository operation is one            *)
(* indivisible step with respect to the other workers.  Between the        *)
(* membership check and the write inside update, and between the           *)
(* membership check and the removal inside delete, no other worker's       *)
(* operation takes effect on that repository, so the key that was checked  *)
(* is still stored when the write or the removal runs; and the dict that   *)
(* get_by_project scans still has the size it had when the scan began.     *)
(***************************************************************************)
C4_RepositoryOperationsAtomic ==
    \A w \in Workers :
        /\ At(w, "update_set") => workers[w].task[1].id \in Keys(tasks)
        /\ At(w, "delete_del") => DeleteKey(w) \in Keys(tasks)
        /\ At(w, "project_delete_del") => workers[w].project_id \in Keys(projects)
        /\ At(w, "scan_next") => Len(tasks) = workers[w].size

(***************************************************************************)
(* C5.  create_task reference check: with a project_id that is no key of   *)
(* the project store it fails with InvalidReference and inserts nothing;   *)
(* with no project_id it succeeds and the task is stored under its id;     *)
(* with a project_id that is a key of the project store it succeeds.       *)
(***************************************************************************)
C5_CreateTaskReferenceCheck ==
    response = Idle =>
        \A task \in TaskInputs :
            LET post == create_task(task) IN
            IF task.project_id = None \/ task.project_id[1] \in Keys(projects)
            THEN /\ post.response = Ok("create_task", 201, task)
                 /\ get_by_id(post.tasks, task.id) = Some(task)
            ELSE /\ InvalidReference(post.response)
                 /\ SameStores(post)

\* create_task has just been refused although some other project exists.
C5_Witness ==
    /\ response.op = "create_task"
    /\ InvalidReference(response)
    /\ projects # <<>>
    /\ tasks # <<>>

(***************************************************************************)
(* C6.  Status-only update frame: update_task_status(T.id, s) on a stored  *)
(* task leaves it with status s and its other fields as before, every      *)
(* other task, the project store and the user store unchanged; on an id    *)
(* that is not stored it fails with NotFound.                              *)
(***************************************************************************)
C6_StatusOnlyFrame ==
    response = Idle =>
        \A task_id \in TaskIds, status \in TaskStatus :
            LET post == update_task_status(task_id, status) IN
            IF task_id \in Keys(tasks)
            THEN LET old == DictGet(tasks, task_id)[1]
                     new == [id |-> old.id, title |-> old.title,
                             description |-> old.description, status |-> status,
                             project_id |-> old.project_id]
                 IN /\ post.response = Ok("update_task_status", 200, new)
                    /\ Len(post.tasks) = Len(tasks)
                    /\ \A i \in DOMAIN tasks :
                          post.tasks[i] = IF tasks[i].id = task_id THEN new ELSE tasks[i]
                    /\ post.projects = projects
                    /\ post.users = users
            ELSE NotFound(post.response)

\* A status-only update has just been applied to a task that carries a
\* description and a different status before, with a second task stored.
C6_Witness ==
    /\ response.op = "update_task_status"
    /\ response.status_code = 200
    /\ response.result.description = Some("d")
    /\ response.result.status = "done"
    /\ Len(tasks) = 2
    /\ projects # <<>>

(***************************************************************************)
(* C7.  Update is whole-record replacement: TaskRepository.update raises   *)
(* on an id that is not stored; on a stored id it makes the stored record  *)
(* the supplied one and keeps the set of ids.  Through update_task every   *)
(* field the caller did not send holds its default (description None,      *)
(* status todo, project_id None) whatever the old record held.             *)
(***************************************************************************)
C7_UpdateReplacesRecord ==
    response = Idle =>
        /\ \A task \in TaskInputs :
              LET r == update(tasks, task) IN
              IF task.id \in Keys(tasks)
              THEN /\ ~r.raised
                   /\ get_by_id(r.store, task.id) = Some(task)
                   /\ Keys(r.store) = Keys(tasks)
              ELSE r.raised /\ r.store = tasks
        /\ \A task_id \in TaskIds, body \in TaskBodies :
              \A uuid4 \in Uuid4(body, TaskIds) :
                  LET post == update_task(task_id, Task(body, uuid4)) IN
                  Succeeded(post.response) =>
                      LET stored == get_by_id(post.tasks, task_id)[1] IN
                      /\ stored.id = task_id
                      /\ stored.title = body["title"]
                      /\ stored.description = Field(body, "description", None)
                      /\ stored.status = Field(body, "status", "todo")
                      /\ stored.project_id = Field(body, "project_id", None)
                      /\ Keys(post.tasks) = Keys(tasks)

\* A stored task with description, status and title of its own, and an
\* accepted update whose body carries only the id and another title.
C7_Witness ==
    /\ response = Idle
    /\ \E i \in DOMAIN tasks :
          /\ tasks[i].description = Some("d")
          /\ tasks[i].status = "done"
          /\ tasks[i].title = "b"
          /\ LET post == update_task(tasks[i].id,
                                     Task([id |-> tasks[i].id, title |-> "a"], tasks[i].id))
             IN /\ Succeeded(post.response)
                /\ post.tasks[i].description = None
                /\ post.tasks[i].status = "todo"

(***************************************************************************)
(* C8.  update_task check order: IdentityMismatch whenever the path id     *)
(* differs from the body id; otherwise NotFound whenever the path id is    *)
(* not stored; otherwise InvalidReference whenever the body's project_id   *)
(* is set and not stored; otherwise success.  Exactly one of the four.     *)
(***************************************************************************)
C8_UpdateTaskCheckOrder ==
    response = Idle =>
        \A task_id \in TaskIds, task \in TaskInputs :
            LET r == update_task(task_id, task).response
                expected ==
                    IF task_id # task.id THEN "IdentityMismatch"
                    ELSE IF task_id \notin Keys(tasks) THEN "NotFound"
                    ELSE IF task.project_id # None
                            /\ task.project_id[1] \notin Keys(projects)
                    THEN "InvalidReference"
                    ELSE "Succeeded"
            IN /\ IdentityMismatch(r) <=> expected = "IdentityMismatch"
               /\ NotFound(r) <=> expected = "NotFound"
               /\ InvalidReference(r) <=> expected = "InvalidReference"
               /\ Succeeded(r) <=> expected = "Succeeded"

\* A state where a request whose path id is not stored, whose body id
\* differs and whose project is missing is answered with IdentityMismatch,
\* while another task is stored.
C8_Witness ==
    /\ response = Idle
    /\ tasks # <<>>
    /\ \E task_id \in TaskIds, task \in TaskInputs :
          /\ task_id # task.id
          /\ task_id \notin Keys(tasks)
          /\ task.project_id # None /\ task.project_id[1] \notin Keys(projects)
          /\ IdentityMismatch(update_task(task_id, task).response)

(***************************************************************************)
(* C9.  Tasks-by-project query: get_by_project(P) lists exactly the stored *)
(* tasks whose project_id is P, each once, whatever the order of creation; *)
(* get_project_tasks(P) returns that list when P is a stored project and   *)
(* fails with NotFound when it is not.                                     *)
(***************************************************************************)
C9_TasksByProject ==
    response = Idle =>
        \A P \in ProjectIds :
            LET found == get_by_project(tasks, P)
                r == get_project_tasks(P).response
            IN /\ Range(found) = {task \in Range(tasks) : References(task, P)}
               /\ Len(found) = Cardinality(Range(found))
               /\ IF P \in Keys(projects)
                  THEN r = Ok("get_project_tasks", 200, found)
                  ELSE NotFound(r)

\* get_project_tasks has just returned one of two stored tasks, the tasks
\* stored in the order opposite to their ids and the other task in another
\* project.
C9_Witness ==
    /\ response.op = "get_project_tasks"
    /\ response.status_code = 200
    /\ Len(response.result) = 1
    /\ Len(tasks) = 2
    /\ tasks[1].id > tasks[2].id
    /\ tasks[1].project_id # None /\ tasks[2].project_id # None

(***************************************************************************)
(* C10.  Create/get round trip: in each repository get_by_id right after   *)
(* create returns the record created and leaves what get_by_id returns for *)
(* every other id; get_by_id on an id that is not stored, and on an id     *)
(* just deleted, returns None.                                             *)
(***************************************************************************)
RoundTrip(store, inputs, ids) ==
    /\ \A rec \in inputs :
          /\ get_by_id(create(store, rec), rec.id) = Some(rec)
          /\ \A id \in ids \ {rec.id} :
                get_by_id(create(store, rec), id) = get_by_id(store, id)
    /\ \A id \in ids :
          IF id \in Keys(store)
          THEN /\ get_by_id(store, id) # None
               /\ get_by_id(store, id)[1].id = id
               /\ get_by_id(delete(store, id).store, id) = None
               /\ \A other \in ids \ {id} :
                     get_by_id(delete(store, id).store, other) = get_by_id(store, other)
          ELSE get_by_id(store, id) = None

C10_CreateGetRoundTrip ==
    response = Idle =>
        /\ RoundTrip(tasks, TaskInputs, TaskIds)
        /\ RoundTrip(projects, ProjectInputs, ProjectIds)
        /\ RoundTrip(users, UserInputs, UserIds)

\* create_project has just overwritten nothing and stored its record beside
\* another one, and get_by_id returns it.
C10_Witness ==
    /\ response.op = "create_project"
    /\ response.status_code = 201
    /\ Len(projects) = 2
    /\ tasks # <<>>
    /\ get_by_id(projects, response.result.id) = Some(response.result)

(***************************************************************************)
(* C11.  Delete: in each repository delete of an id that is not stored     *)
(* raises and leaves the store as it was; delete of a stored id removes    *)
(* that record and no other, after which get_by_id of the id is None and   *)
(* a second delete of it raises.  delete_task reports the absent id as     *)
(* 404 with all stores unchanged, and on a stored id performs exactly the  *)
(* repository delete.                                                      *)
(***************************************************************************)
DeleteContract(store, ids) ==
    \A id \in ids :
        LET r == delete(store, id) IN
        IF id \notin Keys(store)
        THEN /\ r.raised
             /\ r.store = store
        ELSE /\ ~r.raised
             /\ Len(r.store) = Len(store) - 1
             /\ Keys(r.store) = Keys(store) \ {id}
             /\ \A other \in Keys(r.store) :
                   get_by_id(r.store, other) = get_by_id(store, other)
             /\ get_by_id(r.store, id) = None
             /\ delete(r.store, id).raised
             /\ delete(r.store, id).store = r.store

C11_Delete ==
    response = Idle =>
        /\ DeleteContract(tasks, TaskIds)
        /\ DeleteContract(projects, ProjectIds)
        /\ DeleteContract(users, UserIds)
        /\ \A task_id \in TaskIds :
              LET post == delete_task(task_id) IN
              IF task_id \notin Keys(tasks)
              THEN NotFound(post.response) /\ SameStores(post)
              ELSE /\ post.response = Ok("delete_task", 204, None)
                   /\ post.tasks = delete(tasks, task_id).store
                   /\ get_by_id(post.tasks, task_id) = None
                   /\ post.projects = projects
                   /\ post.users = users

\* delete_task has just removed one of two stored tasks.
C11_Witness ==
    /\ response.op = "delete_task"
    /\ response.status_code = 204
    /\ Len(tasks) = 1
    /\ projects # <<>>

(***************************************************************************)
(* C12.  Create with a colliding identity: create of a record whose id is  *)
(* already a key of its store succeeds, puts the new record in the place   *)
(* of the stored one and leaves the number of records and every other      *)
(* record as they were.  create_task still refuses (400) a colliding task  *)
(* whose project is not stored, changing nothing; create_project leaves    *)
(* the task store, and so every task referring to that id, untouched.      *)
(***************************************************************************)
Replaced(store, after, rec) ==
    /\ Len(after) = Len(store)
    /\ Keys(after) = Keys(store)
    /\ get_by_id(after, rec.id) = Some(rec)
    /\ \A other \in Keys(store) \ {rec.id} :
          get_by_id(after, other) = get_by_id(store, other)

C12_CreateCollision ==
    response = Idle =>
        /\ \A task \in TaskInputs :
              task.id \in Keys(tasks) =>
                  LET post == create_task(task) IN
                  IF Truthy(task.project_id) /\ task.project_id[1] \notin Keys(projects)
                  THEN InvalidReference(post.response) /\ SameStores(post)
                  ELSE /\ post.response = Ok("create_task", 201, task)
                       /\ Replaced(tasks, post.tasks, task)
        /\ \A project \in ProjectInputs :
              project.id \in Keys(projects) =>
                  LET post == create_project(project) IN
                  /\ post.response = Ok("create_project", 201, project)
                  /\ Replaced(projects, post.projects, project)
                  /\ post.tasks = tasks
        /\ \A user \in UserInputs :
              user.id \in Keys(users) =>
                  LET post == create_user(user) IN
                  /\ post.response = Ok("create_user", 201, user)
                  /\ Replaced(users, post.users, user)

\* create_project has just stored a record under an id that a task already
\* refers to, so the id was a key before the call.
C12_Witness ==
    /\ response.op = "create_project"
    /\ response.status_code = 201
    /\ response.result.name = "m"
    /\ \E i \in DOMAIN tasks : References(tasks[i], response.result.id)

(***************************************************************************)
(* C19.  Cross-store frame: the task handlers leave the project and user   *)
(* stores as they were; the user handlers leave the task and project       *)
(* stores; create_project, list_projects, get_project and                  *)
(* get_project_tasks leave the task and user stores; delete_project        *)
(* leaves the user store.  So no handler but delete_project changes more   *)
(* than one store.                                                         *)
(***************************************************************************)
TaskOutcomes ==
    {create_task(task) : task \in TaskInputs}
    \cup {update_task(task_id, task) : task_id \in TaskIds, task \in TaskInputs}
    \cup {delete_task(task_id) : task_id \in TaskIds}
    \cup {update_task_status(task_id, status) : task_id \in TaskIds, status \in TaskStatus}
    \cup {get_task(task_id) : task_id \in TaskIds}
    \cup {list_tasks}

UserOutcomes ==
    {create_user(user) : user \in UserInputs}
    \cup {get_user(user_id) : user_id \in UserIds}
    \cup {list_users}

ProjectOutcomes ==
    {create_project(project) : project \in ProjectInputs}
    \cup {get_project(project_id) : project_id \in ProjectIds}
    \cup {get_project_tasks(project_id) : project_id \in ProjectIds}
    \cup {list_projects}

Changed(post) ==
    {name \in {"tasks", "projects", "users"} :
        post[name] # Post(tasks, projects, users, Idle)[name]}

C19_CrossStoreFrame ==
    response = Idle =>
        /\ \A post \in TaskOutcomes : Changed(post) \subseteq {"tasks"}
        /\ \A post \in UserOutcomes : Changed(post) \subseteq {"users"}
        /\ \A post \in ProjectOutcomes : Changed(post) \subseteq {"projects"}
        /\ \A project_id \in ProjectIds :
              Changed(delete_project(project_id)) \subseteq {"tasks", "projects"}
        /\ \A post \in Outcomes :
              Cardinality(Changed(post)) > 1 => post.response.op = "delete_project"

\* delete_project has just succeeded beside a stored user, a remaining
\* project and a remaining task.
C19_Witness ==
    /\ response.op = "delete_project"
    /\ response.status_code = 204
    /\ users # <<>>
    /\ projects # <<>>
    /\ tasks # <<>>

(***************************************************************************)
(* C20.  The user store only grows: in every step an id that is a key of   *)
(* the user store stays a key, and the record stored under it changes      *)
(* only in a step in which create_user answers with a record of that id.   *)
(***************************************************************************)
C20_UserStoreGrowOnly ==
    [][\A id \in Keys(users) :
          /\ id \in Keys(users')
          /\ get_by_id(users', id) # get_by_id(users, id) =>
                /\ response'.op = "create_user"
                /\ response'.result.id = id]_vars

\* create_user has just answered and the store holds the record it sent,
\* beside stored tasks and projects.
C20_Witness ==
    /\ response.op = "create_user"
    /\ response.status_code = 201
    /\ get_by_id(users, response.result.id) = Some(response.result)
    /\ response.result.username = "v"
    /\ tasks # <<>>
    /\ projects # <<>>

(***************************************************************************)
(* C14.  Cascade ordering: with delete_project run as separate steps       *)
(* (existence check, enumeration, one delete per task, project delete),    *)
(* the worker reaches the deletion of the project record only when none    *)
(* of the tasks it enumerated is still in the task store; and when only    *)
(* reads run beside a writing request, every state, the intermediate       *)
(* states of the cascade included, has every task with a project_id        *)
(* referring to a stored project.                                          *)
(***************************************************************************)
C14_CascadeOrdering ==
    /\ \A w \in Workers :
          workers[w].pc \in {"project_delete_in", "project_delete_del"} =>
              \A i \in DOMAIN workers[w].found :
                  workers[w].found[i].id \notin Keys(tasks)
    /\ \A i \in DOMAIN tasks :
          Truthy(tasks[i].project_id) => tasks[i].project_id[1] \in Keys(projects)

\* delete_project stands before the removal of the project record, having
\* enumerated and deleted two tasks, while list_tasks runs on the other
\* worker.
C14_Witness ==
    \E w, v \in Workers :
        /\ At(w, "project_delete_del")
        /\ Len(workers[w].found) = 2
        /\ workers[w].project_id \in Keys(projects)
        /\ workers[v].op = "list_tasks"
        /\ workers[v].pc = "done"
        /\ Len(workers[v].resp[1].result) = 1

(***************************************************************************)
(* C15.  Check-then-write race: the write that ends create_task or         *)
(* update_task, taken after the project check has passed, does not look    *)
(* at the project store again: the request succeeds and the task is        *)
(* stored as sent whether or not its project is still stored.  The         *)
(* witness is the execution of the claim: create_task passes its check     *)
(* for P, delete_project(P) enumerates and deletes P, the task is written, *)
(* both requests succeed and the stored task refers to an absent project.  *)
(***************************************************************************)
C15_CheckThenWriteRace ==
    [][\A w \in Workers :
          (/\ workers[w].op \in {"create_task", "update_task"}
           /\ workers[w].pc \in {"create_task_create", "update_set"}
           /\ workers'[w].pc = "done")
          => /\ Succeeded(workers'[w].resp[1])
             /\ get_by_id(tasks', workers[w].task[1].id) = workers[w].task
             /\ projects' = projects]_vars

C15_Witness ==
    \E w, v \in Workers :
        /\ At(w, "done")
        /\ workers[w].op = "create_task"
        /\ workers[w].resp[1].status_code = 201
        /\ At(v, "done")
        /\ workers[v].op = "delete_project"
        /\ workers[v].resp[1].status_code = 204
        /\ get_by_id(tasks, workers[w].task[1].id) = workers[w].task
        /\ workers[w].task[1].project_id[1] = workers[v].project_id
        /\ workers[v].project_id \notin Keys(projects)

(***************************************************************************)
(* C16.  Error kinds are closed under interleaving: every request that     *)
(* does not succeed answers NotFound, InvalidReference or                  *)
(* IdentityMismatch; the ValueError of TaskRepository.delete,              *)
(* TaskRepository.update or ProjectRepository.delete is not reached once   *)
(* the handler's own existence check has passed.                           *)
(***************************************************************************)
C16_ErrorKindsClosed ==
    \A w \in Workers :
        At(w, "done") =>
            \/ Succeeded(workers[w].resp[1])
            \/ Failed(workers[w].resp[1])

(***************************************************************************)
(* C17.  Partial cascade progress is observable: list_tasks answers with   *)
(* the task store as it is at its step, also between two deletions of a    *)
(* cascade; and the step in which delete_project stops with an error       *)
(* leaves the task and project stores as they are at that point: nothing   *)
(* deleted so far is put back and the project is not removed.  The         *)
(* witness is the state of the claim: P stored, the first of its two       *)
(* enumerated tasks deleted, the second still stored, and list_tasks       *)
(* having answered with exactly that.                                      *)
(***************************************************************************)
C17_PartialCascade ==
    [][\A w \in Workers :
          /\ (/\ workers[w].op = "list_tasks"
               /\ workers[w].pc # "done"
               /\ workers'[w].pc = "done")
              => workers'[w].resp[1] = Ok("list_tasks", 200, tasks)
          /\ (/\ workers[w].op = "delete_project"
               /\ workers[w].pc # "done"
               /\ workers'[w].pc = "done"
               /\ ~Succeeded(workers'[w].resp[1]))
              => /\ tasks' = tasks
                 /\ projects' = projects]_vars

C17_Witness ==
    \E w, v \in Workers :
        /\ workers[w].op = "delete_project"
        /\ workers[w].pc \in {"loop", "delete_in", "delete_del"}
        /\ Len(workers[w].found) = 2
        /\ workers[w].cursor = 2
        /\ workers[w].project_id \in Keys(projects)
        /\ workers[w].found[1].id \notin Keys(tasks)
        /\ workers[w].found[2].id \in Keys(tasks)
        /\ At(v, "done")
        /\ workers[v].resp[1] = Ok("list_tasks", 200, tasks)

(***************************************************************************)
(* C18.  No lost update from the status-only operation: the write that     *)
(* ends update_task_status leaves title, description and project_id of     *)
(* the task stored under the id as they are at that moment, so it never    *)
(* puts back values it fetched before a concurrent update_task took        *)
(* effect.                                                                 *)
(***************************************************************************)
C18_NoLostUpdate ==
    [][\A w \in Workers :
          (/\ workers[w].op = "update_task_status"
           /\ At(w, "update_set")
           /\ workers'[w].pc = "done"
           /\ workers[w].task_id \in Keys(tasks))
          => LET old == DictGet(tasks, workers[w].task_id)[1]
                 new == DictGet(tasks', workers[w].task_id)[1]
             IN /\ new.title = old.title
                /\ new.description = old.description
                /\ new.project_id = old.project_id]_vars
====
